---------------------------- MODULE Spec2Model ----------------------------
(***************************************************************************)
(* Model of src/main.py: the FastAPI application with its retry pipeline   *)
(* process_rs_with_retry, the text sanitizer clean_ai_json, the POST       *)
(* endpoint rs_engine and the health probe health_check.                   *)
(*                                                                         *)
(* Python values are modelled as sequences of tokens: a str is the         *)
(* sequence of its characters (BT stands for the backtick character), a    *)
(* long literal of the source is one token, and None is a one-token        *)
(* sequence, which no str equals because its token is not a character.     *)
(***************************************************************************)
EXTENDS Integers, Sequences, FiniteSets, TLC

(***************************************************************************)
(* Bounds of the model.                                                    *)
(***************************************************************************)
MaxLen == 3
NumPosts == 2
NumGets == 1
MaxRetries == 2

(***************************************************************************)
(* Characters and values.                                                  *)
(***************************************************************************)
QT == "\""
BS == "\\"
NL == "\n"
SP == " "
BT == "BACKTICK"

None == <<"None">>

IsSpace(c) == c \in {SP, NL, "\t"}

(***************************************************************************)
(* str.strip(): drops leading and trailing whitespace.                     *)
(***************************************************************************)
RECURSIVE LStrip(_)
LStrip(s) ==
    IF s # <<>> /\ IsSpace(Head(s)) THEN LStrip(Tail(s)) ELSE s

RECURSIVE RStrip(_)
RStrip(s) ==
    IF s # <<>> /\ IsSpace(s[Len(s)]) THEN RStrip(SubSeq(s, 1, Len(s) - 1)) ELSE s

Strip(s) == RStrip(LStrip(s))

StartsWith(s, p) == Len(s) >= Len(p) /\ SubSeq(s, 1, Len(p)) = p

EndsWith(s, p) == Len(s) >= Len(p) /\ SubSeq(s, Len(s) - Len(p) + 1, Len(s)) = p

FenceJson == <<BT, BT, BT, "j", "s", "o", "n">>

Fence == <<BT, BT, BT>>

(***************************************************************************)
(* First re.sub of clean_ai_json: the opening fence, three backticks and   *)
(* json,                                                                   *)
(* at the very start and all whitespace that follows it.                   *)
(***************************************************************************)
RemoveLeadingFence(s) ==
    IF StartsWith(s, FenceJson)
    THEN LStrip(SubSeq(s, Len(FenceJson) + 1, Len(s)))
    ELSE s

(***************************************************************************)
(* Second re.sub of clean_ai_json: the closing fence of three backticks at *)
(* the end, with all whitespace before it.  Without re.MULTILINE, $        *)
(* matches at the end and also just before a final newline, which is then  *)
(* kept.                                                                   *)
(***************************************************************************)
RemoveTrailingFenceOnly(s) ==
    IF EndsWith(s, Fence) THEN SubSeq(s, 1, Len(s) - 3) ELSE s

RemoveTrailingFence(s) ==
    IF EndsWith(s, Fence)
    THEN RStrip(SubSeq(s, 1, Len(s) - 3))
    ELSE IF EndsWith(s, Fence \o <<NL>>)
         THEN RStrip(SubSeq(s, 1, Len(s) - 4)) \o <<NL>>
         ELSE s

RECURSIVE SkipSpace(_, _)
SkipSpace(s, i) ==
    IF i <= Len(s) /\ IsSpace(s[i]) THEN SkipSpace(s, i + 1) ELSE i

(***************************************************************************)
(* Length of the match of quote, spaces, plus, spaces, quote at position   *)
(* i of s, 0 when there is none.                                           *)
(***************************************************************************)
MatchConcatLen(s, i) ==
    IF i <= Len(s) /\ s[i] = QT
    THEN LET j == SkipSpace(s, i + 1)
         IN  IF j <= Len(s) /\ s[j] = "+"
             THEN LET k == SkipSpace(s, j + 1)
                  IN  IF k <= Len(s) /\ s[k] = QT THEN k - i + 1 ELSE 0
             ELSE 0
    ELSE 0

(***************************************************************************)
(* Third re.sub of clean_ai_json: the leftmost non-overlapping matches of  *)
(* quote, spaces, plus, spaces, quote are removed in one scan.             *)
(***************************************************************************)
RECURSIVE RemoveConcatFrom(_, _)
RemoveConcatFrom(s, i) ==
    IF i > Len(s) THEN <<>>
    ELSE LET n == MatchConcatLen(s, i)
         IN  IF n > 0 THEN RemoveConcatFrom(s, i + n)
             ELSE <<s[i]>> \o RemoveConcatFrom(s, i + 1)

RemoveConcat(s) == RemoveConcatFrom(s, 1)

(***************************************************************************)
(* str.replace(old, new) for a two-character old and a one-character new:  *)
(* non-overlapping occurrences, left to right.                             *)
(***************************************************************************)
RECURSIVE ReplaceFrom(_, _, _, _)
ReplaceFrom(s, i, old, new) ==
    IF i > Len(s) THEN <<>>
    ELSE IF i < Len(s) /\ s[i] = old[1] /\ s[i + 1] = old[2]
         THEN <<new>> \o ReplaceFrom(s, i + 2, old, new)
         ELSE <<s[i]>> \o ReplaceFrom(s, i + 1, old, new)

(* A replace that stops after the first occurrence, as with count = 1. *)
RECURSIVE ReplaceFirstFrom(_, _, _, _)
ReplaceFirstFrom(s, i, old, new) ==
    IF i > Len(s) THEN <<>>
    ELSE IF i < Len(s) /\ s[i] = old[1] /\ s[i + 1] = old[2]
         THEN <<new>> \o SubSeq(s, i + 2, Len(s))
         ELSE <<s[i]>> \o ReplaceFirstFrom(s, i + 1, old, new)

ReplaceFirst(s, old, new) == ReplaceFirstFrom(s, 1, old, new)

Replace(s, old, new) == ReplaceFrom(s, 1, old, new)

(***************************************************************************)
(* What a Python call evaluates to when it raises instead of returning:    *)
(* a one-token value that is neither None nor a str.                       *)
(***************************************************************************)
RaisedError == <<"Exception">>

(* The test of the first if: not ai_message holds of None and of "". *)
FalsyEmptyOnly(ai_message) == ai_message = <<>>

Falsy(ai_message) == ai_message = None \/ ai_message = <<>>

(***************************************************************************)
(* The body of clean_ai_json after its guard: the two strips and fence     *)
(* removals, the removal of concatenation symbols and the two replaces.    *)
(***************************************************************************)
CleanSteps(ai_message) ==
    LET s1 == RemoveLeadingFence(Strip(ai_message))
        s2 == RemoveTrailingFence(Strip(s1))
        s3 == RemoveConcat(s2)
    IN  Replace(Replace(s3, <<BS, "n">>, NL), <<BS, QT>>, QT)

(* clean_ai_json followed by a json.loads that rejects a raw newline. *)
clean_ai_json_loads(ai_message) ==
    IF Falsy(ai_message) THEN None
    ELSE IF \E i \in 1..Len(CleanSteps(ai_message)) : CleanSteps(ai_message)[i] = NL
         THEN RaisedError
         ELSE CleanSteps(ai_message)

(***************************************************************************)
(* clean_ai_json: None for a None or empty message, else the message with  *)
(* fences, concatenation symbols and the two escapes removed.  Calling     *)
(* strip on None would raise AttributeError; the guard comes first.        *)
(***************************************************************************)
clean_ai_json(ai_message) ==
    IF Falsy(ai_message) THEN None
    ELSE IF ai_message = None THEN RaisedError
         ELSE CleanSteps(ai_message)

(***************************************************************************)
(* Raw texts the sanitizer is exercised on: a body of at most MaxLen       *)
(* characters, optionally between an opening and a closing fence.          *)
(***************************************************************************)
Alphabet == {QT, "+", BS, "n", SP, "a"}

Bodies == UNION {[1..k -> Alphabet] : k \in 0..MaxLen}

Prefixes == {<<>>, FenceJson, FenceJson \o <<NL>>}

Suffixes == {<<>>, Fence, <<NL>> \o Fence}

RawTexts == {p \o b \o x : p \in Prefixes, b \in Bodies, x \in Suffixes}

(* A body between the opening fence, a line break, a line break and the
   closing fence. *)
Fenced(body) == FenceJson \o <<NL>> \o body \o <<NL>> \o Fence

(* The bodies {"a": "x" + "y"} and "a"+"+"a" (two symbols sharing a quote). *)
CraftedBodies ==
    { <<"{", QT, "a", QT, ":", SP, QT, "x", QT, SP, "+", SP, QT, "y", QT, "}">>,
      <<QT, "a", QT, "+", QT, "+", QT, "a", QT>> }

(* The escaped text of the escape-substitution example: backslash quote,
   value, backslash n, line2, backslash quote; and the text with two
   backslash n in a row. *)
CraftedEscapes ==
    { <<BS, QT, "v", "a", "l", "u", "e", BS, "n", "l", "i", "n", "e", "2", BS, QT>>,
      <<"a", BS, "n", BS, "n", "a">> }

(* Every argument clean_ai_json is exercised on, None included. *)
SanInputs == RawTexts \cup {Fenced(b) : b \in CraftedBodies} \cup CraftedEscapes \cup {None}

(***************************************************************************)
(* Defaults of process_rs_with_retry and the values of one request.        *)
(***************************************************************************)
DefaultRetries == 5

Posts == 1..NumPosts

Gets == 1..NumGets

NoTask == 0

(* The AnalysisRequest of request r: two free-form table strings, which
   differ from those of every other request. *)
AnalysisRequest(r) ==
    [recommendation_table |-> <<"R", ToString(r)>>,
     body_analysis_table |-> <<"B", ToString(r)>>]

NoRequest == [recommendation_table |-> None, body_analysis_table |-> None]

(* The f-string main_prompt: both tables embedded in the fixed template. *)
main_prompt(recommendation_table, body_analysis_table) ==
    <<"Recommendation Table: ">> \o recommendation_table
        \o <<NL, "Body Analysis Table: ">> \o body_analysis_table
        \o <<NL, "***Return Your Response in JSON Format Only*** ...">>

(* Contents response.choices[0].message.content may hold. *)
ModelTexts ==
    { None,
      FenceJson \o <<NL, "{", QT, "a", QT, ":", QT, "x", BS, "n", QT, "}", NL>> \o Fence }

(* Exceptions the attempt can raise (all are subclasses of Exception). *)
Errors == {"APIError"}

(* The dict literal parsed_json; cleaned is computed before it and unused. *)
SixFields ==
    {"text_recommendations", "top_wear_search_engine_query",
     "bottom_wear_search_engine_query", "shoes_search_engine_query",
     "color_recommendations_search_engine_query", "color_combinations"}

parsed_json_partial(cleaned) ==
    [text_recommendations |-> cleaned,
     top_wear_search_engine_query |-> <<"slim fit tailored shirts for men V neck sweaters layered outfits">>,
     bottom_wear_search_engine_query |-> <<"tapered straight leg pants mid rise trousers neutral colors">>,
     shoes_search_engine_query |-> <<"low profile sneakers desert boots loafers for men">>,
     color_recommendations_search_engine_query |-> <<"earth tones muted palettes subtle patterns for men">>,
     color_combinations |-> <<"Navy blue with light brown and white",
                              "Olive green with beige and gray">>]

parsed_json_wrong(cleaned) ==
    [text_recommendations |-> IF cleaned = None THEN <<"Based on the provided height of 170.18 cm, ...">> ELSE cleaned,
     top_wear_search_engine_query |-> <<"slim fit tailored shirts for men V neck sweaters layered outfits">>,
     bottom_wear_search_engine_query |-> <<"tapered straight leg pants mid rise trousers neutral colors">>,
     shoes_search_engine_query |-> <<"low profile sneakers desert boots loafers for men">>,
     color_recommendations_search_engine_query |-> <<"earth tones muted palettes subtle patterns for men">>,
     color_combinations |-> <<"Navy blue with light brown and white",
                              "Olive green with beige and gray",
                              "Charcoal gray with navy blue and white",
                              "Earth tone brown with olive green and beige",
                              "Gray with navy blue and light brown">>]

parsed_json(cleaned) ==
    [text_recommendations |-> <<"Based on the provided height of 170.18 cm, ...">>,
     top_wear_search_engine_query |-> <<"slim fit tailored shirts for men V neck sweaters layered outfits">>,
     bottom_wear_search_engine_query |-> <<"tapered straight leg pants mid rise trousers neutral colors">>,
     shoes_search_engine_query |-> <<"low profile sneakers desert boots loafers for men">>,
     color_recommendations_search_engine_query |-> <<"earth tones muted palettes subtle patterns for men">>,
     color_combinations |-> <<"Navy blue with light brown and white",
                              "Olive green with beige and gray",
                              "Charcoal gray with navy blue and white",
                              "Earth tone brown with olive green and beige",
                              "Gray with navy blue and light brown">>]

(* str(x) inside an f-string: None is written as the four letters None. *)
Str(x) == IF x = None THEN <<"N", "o", "n", "e">> ELSE x

(* The detail of the HTTPException raised after the loop. *)
Detail(last) == <<"Failed after multiple retries. Last AI response: ">> \o Str(last)

NoResponse == [status |-> 0]

OkResponse(body) == [status |-> 200, body |-> body]

ErrorResponse(detail) == [status |-> 500, detail |-> detail]

(* An exception that leaves rs_engine uncaught: the server's plain 500. *)
UnhandledResponse == [status |-> 500, detail |-> <<"Internal Server Error">>]

(* last_response = None at the start of process_rs_with_retry. *)
InitLastResponseEmpty == <<>>

InitLastResponse == None

(* The loop condition attempt < retries. *)
LoopCondInclusive(a, n) == a <= n

LoopCond(a, n) == a < n

(* except Exception as e: every error of an attempt is caught. *)
CaughtNothing(e) == FALSE

Caught(e) == TRUE

(* attempt += 1 on the local counter of the running call. *)
IncAttemptShared(att, r) == [q \in DOMAIN att |-> att[q] + 1]

IncAttempt(att, r) == [att EXCEPT ![r] = @ + 1]

(* The number printed by the except branch: attempt + 1. *)
AttemptNumberZeroBased(a) == a

AttemptNumber(a) == a + 1

(* time.sleep(delay) follows attempt += 1 unconditionally; a is the value of
   attempt after the increment and n is retries. *)
SleepsOnlyBetween(a, n) == a < n

SleepsAfter(a, n) == TRUE

(* Values of retries a direct caller of process_rs_with_retry passes. *)
RetryArgs == {-1, 0} \cup 1..MaxRetries

VARIABLES
    pc,             \* position of each POST /rseq-api-v2 request
    request,        \* the AnalysisRequest of each POST
    retries,        \* parameter retries of the call made for each POST
    attempt,        \* local attempt of each call
    last_response,  \* local last_response of each call
    cleaned,        \* local cleaned of each call
    response,       \* HTTP response sent for each POST
    loop,           \* the request whose coroutine occupies the event loop
    stdout,         \* lines printed by the except branch, per calling request
    prompts,        \* prompts sent to the model by each call, in order
    outcomes,       \* outcome of every invoker call of each request, in order
    sleeps,         \* number of time.sleep calls made for each request
    gpc,            \* position of each GET / request
    gresponse,      \* HTTP response sent for each GET
    san_in, san_pc, san_once, san_twice

pipeVars == <<pc, request, retries, attempt, last_response, cleaned, response,
              loop, stdout, prompts, outcomes, sleeps>>

getVars == <<gpc, gresponse>>

sanVars == <<san_in, san_pc, san_once, san_twice>>

vars == <<pipeVars, getVars, sanVars>>

PipeInit ==
    /\ pc = [r \in Posts |-> "idle"]
    /\ request = [r \in Posts |-> NoRequest]
    /\ retries = [r \in Posts |-> DefaultRetries]
    /\ attempt = [r \in Posts |-> 0]
    /\ last_response = [r \in Posts |-> None]
    /\ cleaned = [r \in Posts |-> None]
    /\ response = [r \in Posts |-> NoResponse]
    /\ loop = NoTask
    /\ stdout = [r \in Posts |-> <<>>]
    /\ prompts = [r \in Posts |-> <<>>]
    /\ outcomes = [r \in Posts |-> <<>>]
    /\ sleeps = [r \in Posts |-> 0]
    /\ gpc = [g \in Gets |-> "idle"]
    /\ gresponse = [g \in Gets |-> NoResponse]

Init ==
    /\ PipeInit
    /\ san_in = None
    /\ san_pc = "unused"
    /\ san_once = None
    /\ san_twice = None

(***************************************************************************)
(* A client sends POST /rseq-api-v2 with a well-formed body.               *)
(***************************************************************************)
PostArrive(r) ==
    /\ pc[r] = "idle"
    /\ pc' = [pc EXCEPT ![r] = "queued"]
    /\ request' = [request EXCEPT ![r] = AnalysisRequest(r)]
    /\ UNCHANGED <<retries, attempt, last_response, cleaned, response, loop,
                   stdout, prompts, outcomes, sleeps, getVars, sanVars>>

(***************************************************************************)
(* rs_engine: the event loop starts the coroutine of a queued request,     *)
(* which calls process_rs_with_retry with the default retries and runs its *)
(* first two assignments.  The coroutine contains no await, so it keeps    *)
(* the event loop until it returns or raises.                              *)
(***************************************************************************)
rs_engine(r) ==
    /\ pc[r] = "queued"
    /\ loop = NoTask
    /\ loop' = r
    /\ retries' = [retries EXCEPT ![r] = DefaultRetries]
    /\ attempt' = [attempt EXCEPT ![r] = 0]
    /\ last_response' = [last_response EXCEPT ![r] = InitLastResponse]
    /\ pc' = [pc EXCEPT ![r] = "while"]
    /\ UNCHANGED <<request, cleaned, response, stdout, prompts, outcomes,
                   sleeps, getVars, sanVars>>

(***************************************************************************)
(* The while test.  True: the prompt is built and the call to              *)
(* client.chat.completions.create starts.  False: the HTTPException after  *)
(* the loop is raised and becomes the 500 response.                        *)
(***************************************************************************)
WhileTest(r) ==
    /\ pc[r] = "while"
    /\ loop = r
    /\ IF LoopCond(attempt[r], retries[r])
       THEN /\ pc' = [pc EXCEPT ![r] = "create"]
            /\ prompts' = [prompts EXCEPT ![r] =
                    Append(@, main_prompt(request[r].recommendation_table,
                                          request[r].body_analysis_table))]
            /\ UNCHANGED <<response, loop>>
       ELSE /\ pc' = [pc EXCEPT ![r] = "raised"]
            /\ response' = [response EXCEPT ![r] = ErrorResponse(Detail(last_response[r]))]
            /\ loop' = NoTask
            /\ UNCHANGED prompts
    /\ UNCHANGED <<request, retries, attempt, last_response, cleaned, stdout,
                   outcomes, sleeps, getVars, sanVars>>

(***************************************************************************)
(* The except branch for exception e raised inside the try, followed by    *)
(* attempt += 1 and the entry into time.sleep.  An exception the except    *)
(* clause does not catch leaves the coroutine.                             *)
(***************************************************************************)
ExceptBranch(r, e) ==
    IF Caught(e)
    THEN /\ stdout' = [stdout EXCEPT ![r] =
                 Append(@, [number |-> AttemptNumber(attempt[r]), error |-> e])]
         /\ attempt' = IncAttempt(attempt, r)
         /\ IF SleepsAfter(attempt[r] + 1, retries[r])
            THEN /\ sleeps' = [sleeps EXCEPT ![r] = @ + 1]
                 /\ pc' = [pc EXCEPT ![r] = "sleep"]
            ELSE /\ pc' = [pc EXCEPT ![r] = "while"]
                 /\ UNCHANGED sleeps
         /\ UNCHANGED <<response, loop>>
    ELSE /\ pc' = [pc EXCEPT ![r] = "raised"]
         /\ response' = [response EXCEPT ![r] = UnhandledResponse]
         /\ loop' = NoTask
         /\ UNCHANGED <<stdout, attempt, sleeps>>

(***************************************************************************)
(* The create call returns and the content is read: last_response is       *)
(* assigned and clean_ai_json is called, inside the try.  When it returns, *)
(* cleaned is assigned and parsed_json is returned as the 200 response.    *)
(***************************************************************************)
CreateReturns(r, ai_message) ==
    /\ pc[r] = "create"
    /\ loop = r
    /\ last_response' = [last_response EXCEPT ![r] = ai_message]
    /\ outcomes' = [outcomes EXCEPT ![r] = Append(@, [ok |-> TRUE, text |-> ai_message])]
    /\ IF clean_ai_json(ai_message) # RaisedError
       THEN /\ cleaned' = [cleaned EXCEPT ![r] = clean_ai_json(ai_message)]
            /\ response' = [response EXCEPT ![r] =
                    OkResponse(parsed_json(clean_ai_json(ai_message)))]
            /\ pc' = [pc EXCEPT ![r] = "returned"]
            /\ loop' = NoTask
            /\ UNCHANGED <<stdout, attempt, sleeps>>
       ELSE /\ ExceptBranch(r, "AttributeError")
            /\ UNCHANGED cleaned
    /\ UNCHANGED <<request, retries, prompts, getVars, sanVars>>

(***************************************************************************)
(* The create call, or the reading of its envelope, raises e: the except   *)
(* branch runs.                                                            *)
(***************************************************************************)
CreateRaises(r, e) ==
    /\ pc[r] = "create"
    /\ loop = r
    /\ outcomes' = [outcomes EXCEPT ![r] = Append(@, [ok |-> FALSE, text |-> None])]
    /\ ExceptBranch(r, e)
    /\ UNCHANGED <<request, retries, last_response, cleaned, prompts,
                   getVars, sanVars>>

(***************************************************************************)
(* time.sleep(delay) returns; the thread of the event loop was blocked in  *)
(* it.  Control goes back to the while test.                               *)
(***************************************************************************)
SleepReturns(r) ==
    /\ pc[r] = "sleep"
    /\ loop = r
    /\ pc' = [pc EXCEPT ![r] = "while"]
    /\ UNCHANGED <<request, retries, attempt, last_response, cleaned, response,
                   loop, stdout, prompts, outcomes, sleeps, getVars, sanVars>>

(***************************************************************************)
(* A client sends GET /.                                                   *)
(***************************************************************************)
GetArrive(g) ==
    /\ gpc[g] = "idle"
    /\ gpc' = [gpc EXCEPT ![g] = "queued"]
    /\ UNCHANGED <<gresponse, pipeVars, sanVars>>

HealthBodyDegraded ==
    [status |-> IF \A r \in Posts : stdout[r] = <<>> THEN <<"o", "k">> ELSE <<"d", "o", "w", "n">>]

HealthBody == [status |-> <<"o", "k">>]

(***************************************************************************)
(* health_check is a plain def: the event loop, when it is free, takes the *)
(* queued GET and hands health_check to a worker thread, which computes    *)
(* the body.                                                               *)
(***************************************************************************)
health_check(g) ==
    /\ gpc[g] = "queued"
    /\ loop = NoTask
    /\ gresponse' = [gresponse EXCEPT ![g] = OkResponse(HealthBody)]
    /\ gpc' = [gpc EXCEPT ![g] = "computed"]
    /\ UNCHANGED <<pipeVars, sanVars>>

(***************************************************************************)
(* The event loop, when it is free, sends the computed response.           *)
(***************************************************************************)
GetRespond(g) ==
    /\ gpc[g] = "computed"
    /\ loop = NoTask
    /\ gpc' = [gpc EXCEPT ![g] = "answered"]
    /\ UNCHANGED <<gresponse, pipeVars, sanVars>>

PostStep(r) ==
    \/ rs_engine(r)
    \/ WhileTest(r)
    \/ \E t \in ModelTexts : CreateReturns(r, t)
    \/ \E e \in Errors : CreateRaises(r, e)
    \/ SleepReturns(r)

GetStep(g) == health_check(g) \/ GetRespond(g)

Next ==
    \/ \E r \in Posts : PostArrive(r)
    \/ \E r \in Posts : rs_engine(r)
    \/ \E r \in Posts : WhileTest(r)
    \/ \E r \in Posts, t \in ModelTexts : CreateReturns(r, t)
    \/ \E r \in Posts, e \in Errors : CreateRaises(r, e)
    \/ \E r \in Posts : SleepReturns(r)
    \/ \E g \in Gets : GetArrive(g)
    \/ \E g \in Gets : health_check(g)
    \/ \E g \in Gets : GetRespond(g)

Spec == Init /\ [][Next]_vars

(***************************************************************************)
(* Fairness: the interpreter keeps running the coroutine that holds the    *)
(* event loop, every model call returns or raises, every sleep ends, and   *)
(* the event loop and its worker threads serve what is ready.  Arrivals of *)
(* requests are not forced.                                                *)
(***************************************************************************)
FairSpec ==
    /\ Spec
    /\ \A r \in Posts : WF_vars(PostStep(r))
    /\ \A g \in Gets : WF_vars(GetStep(g))

(***************************************************************************)
(* A direct call of process_rs_with_retry with an explicit retries, awaited *)
(* on the free event loop: the first two assignments are run.              *)
(***************************************************************************)
process_rs_with_retry(r, n) ==
    /\ pc[r] = "idle"
    /\ loop = NoTask
    /\ loop' = r
    /\ request' = [request EXCEPT ![r] = AnalysisRequest(r)]
    /\ retries' = [retries EXCEPT ![r] = n]
    /\ attempt' = [attempt EXCEPT ![r] = 0]
    /\ last_response' = [last_response EXCEPT ![r] = InitLastResponse]
    /\ pc' = [pc EXCEPT ![r] = "while"]
    /\ UNCHANGED <<cleaned, response, stdout, prompts, outcomes, sleeps,
                   getVars, sanVars>>

CallNext ==
    \/ \E r \in Posts, n \in RetryArgs : process_rs_with_retry(r, n)
    \/ \E r \in Posts : WhileTest(r)
    \/ \E r \in Posts, t \in ModelTexts : CreateReturns(r, t)
    \/ \E r \in Posts, e \in Errors : CreateRaises(r, e)
    \/ \E r \in Posts : SleepReturns(r)

CallSpec == Init /\ [][CallNext]_vars

(***************************************************************************)
(* The sanitizer on its own: two successive calls on one raw text.         *)
(***************************************************************************)
SanInit ==
    /\ PipeInit
    /\ san_in \in SanInputs
    /\ san_pc = "raw"
    /\ san_once = None
    /\ san_twice = None

(* One call of clean_ai_json on the raw text. *)
CleanOnce ==
    /\ san_pc = "raw"
    /\ san_once' = clean_ai_json(san_in)
    /\ san_pc' = "once"
    /\ UNCHANGED <<san_in, san_twice, pipeVars, getVars>>

(* A second call of clean_ai_json, on the result of the first. *)
CleanTwice ==
    /\ san_pc = "once"
    /\ san_twice' = clean_ai_json(san_once)
    /\ san_pc' = "twice"
    /\ UNCHANGED <<san_in, san_once, pipeVars, getVars>>

SanNext == CleanOnce \/ CleanTwice

SanSpec == SanInit /\ [][SanNext]_vars

TypeOK ==
    /\ pc \in [Posts -> {"idle", "queued", "while", "create", "sleep", "returned", "raised"}]
    /\ loop \in Posts \cup {NoTask}
    /\ gpc \in [Gets -> {"idle", "queued", "computed", "answered"}]

(***************************************************************************)
(* Helpers of the properties.                                              *)
(***************************************************************************)
Running(r) == pc[r] \in {"while", "create", "sleep"}

Finished(r) == pc[r] \in {"returned", "raised"}

AllFailed(h) == \A i \in 1..Len(h) : ~h[i].ok

Failures(h) == Cardinality({i \in 1..Len(h) : ~h[i].ok})

(* Text of the most recent invoker call that returned, None if none did. *)
RECURSIVE LastObtainedText(_)
LastObtainedText(h) ==
    IF h = <<>> THEN None
    ELSE IF h[Len(h)].ok THEN h[Len(h)].text
         ELSE LastObtainedText(SubSeq(h, 1, Len(h) - 1))

HasSixFields(resp) ==
    /\ "body" \in DOMAIN resp
    /\ DOMAIN resp.body = SixFields
    /\ \A f \in SixFields : resp.body[f] # None
    /\ Len(resp.body.color_combinations) \in 3..5

(* C1: with retries = 5 and every attempt failing, the run makes exactly 5
   invoker calls, sleeps exactly 4 times (only between attempts) and then
   raises the retry-exhausted error. *)
C1_FiveAttemptsFourSleeps ==
    \A r \in Posts :
        (pc[r] = "raised" /\ retries[r] = 5 /\ AllFailed(outcomes[r]))
            => /\ Len(outcomes[r]) = 5
               /\ sleeps[r] = 4
               /\ response[r] = ErrorResponse(Detail(last_response[r]))

(* C2: every run in which an invoker call returns ends with the one
   canonical result, whatever the request tables, the model text and the
   index of the attempt that succeeded. *)
C2_CanonicalResult ==
    \A r \in Posts :
        pc[r] = "returned" =>
            /\ response[r] = OkResponse(parsed_json(None))
            /\ \A q \in Posts : pc[q] = "returned" => response[q] = response[r]

(* Two finished successes that differ in request, text and attempt index. *)
C2_Witness ==
    \E r, q \in Posts :
        /\ pc[r] = "returned" /\ pc[q] = "returned"
        /\ request[r] # request[q]
        /\ last_response[r] # last_response[q]
        /\ cleaned[r] # None
        /\ attempt[r] = 0 /\ attempt[q] > 0

(* C3 as stated: every response to a well-formed POST carries the six
   non-null fields, color_combinations having 3 to 5 entries. *)
C3_EveryResponseSixFields ==
    \A r \in Posts : response[r] # NoResponse => HasSixFields(response[r])

(* C3 as amended: every 200 response to a well-formed POST carries the six
   non-null fields, color_combinations having 3 to 5 entries. *)
C3_OkResponseSixFields ==
    \A r \in Posts : response[r].status = 200 => HasSixFields(response[r])

C3_Witness ==
    \E r \in Posts :
        /\ pc[r] = "returned" /\ response[r].status = 200
        /\ cleaned[r] # None

(* C4: at exhaustion the request fails with a 500 whose detail carries the
   text of the most recent attempt that obtained one, or None when no attempt
   obtained any. *)
C4_ExhaustedDetail ==
    \A r \in Posts :
        pc[r] = "raised" =>
            response[r] = ErrorResponse(Detail(LastObtainedText(outcomes[r])))

C4_Witness == \E r \in Posts : pc[r] = "raised" /\ Len(outcomes[r]) = DefaultRetries

(* C5: every run ends in returned or raised, makes at most retries invoker
   calls, and its attempt counter never exceeds retries. *)
C5_Terminates ==
    /\ [](\A r \in Posts : /\ attempt[r] <= retries[r]
                           /\ Len(prompts[r]) <= retries[r]
                           /\ Len(outcomes[r]) <= Len(prompts[r]))
    /\ \A r \in Posts : Running(r) ~> Finished(r)

C5_Witness ==
    \E r \in Posts : pc[r] = "raised" /\ attempt[r] = retries[r] /\ Len(prompts[r]) = retries[r]

(* C6: a caller sees nothing before the run ends, and then either the
   canonical 200 or the terminal 500, the latter only after retries failed
   attempts. *)
C6_OnlyCanonicalOrTerminal ==
    \A r \in Posts :
        /\ ~Finished(r) => response[r] = NoResponse
        /\ pc[r] = "returned" => response[r] = OkResponse(parsed_json(cleaned[r]))
        /\ pc[r] = "raised" =>
              /\ response[r] = ErrorResponse(Detail(last_response[r]))
              /\ Len(outcomes[r]) = retries[r]
              /\ AllFailed(outcomes[r])

(* A failed attempt that has been absorbed: nothing sent, the run goes on. *)
C6_Witness ==
    \E r \in Posts :
        /\ pc[r] = "sleep" /\ Failures(outcomes[r]) > 0
        /\ response[r] = NoResponse

(* C7: while one request waits out its delay, every other pending request
   can take its next step. *)
C7_SleepBlocksOnlyOwnTask ==
    \A r \in Posts :
        pc[r] = "sleep" =>
            /\ \A q \in Posts \ {r} : pc[q] = "queued" => ENABLED rs_engine(q)
            /\ \A g \in Gets : gpc[g] = "queued" => ENABLED health_check(g)
            /\ \A g \in Gets : gpc[g] = "computed" => ENABLED GetRespond(g)

(* C8: every GET / is eventually answered with status ok, whatever the
   model service does, and the steps that serve it change no request's
   pipeline state. *)
C8_HealthAlwaysOk ==
    /\ \A g \in Gets : (gpc[g] = "queued") ~> (gpc[g] = "answered")
    /\ [](\A g \in Gets :
            gpc[g] = "answered" => gresponse[g] = OkResponse([status |-> <<"o", "k">>]))
    /\ [][(gpc' # gpc) => UNCHANGED pipeVars]_vars

(* A GET answered although a request of a failing model service is running
   or has been exhausted. *)
C8_Witness ==
    \E g \in Gets, r \in Posts :
        /\ gpc[g] = "answered"
        /\ pc[r] = "raised"
        /\ \E q \in Posts : pc[q] = "sleep"

(* C9: each request's attempt counter, last raw text and outcome are
   functions of the outcomes of its own invoker calls, and every step
   changes these values for at most the one request that takes it. *)
C9_Independent ==
    /\ [](\A r \in Posts :
            /\ attempt[r] = Failures(outcomes[r])
            /\ last_response[r] = LastObtainedText(outcomes[r])
            /\ pc[r] = "returned" <=> (outcomes[r] # <<>> /\ outcomes[r][Len(outcomes[r])].ok)
            /\ pc[r] = "raised" => (AllFailed(outcomes[r]) /\ Len(outcomes[r]) = retries[r])
            /\ (AllFailed(outcomes[r]) /\ Len(outcomes[r]) = retries[r])
                  => pc[r] \in {"sleep", "while", "raised"})
    /\ [][\A q \in Posts :
            (\/ attempt'[q] # attempt[q]
             \/ last_response'[q] # last_response[q]
             \/ response'[q] # response[q]
             \/ outcomes'[q] # outcomes[q])
                => (loop = q \/ loop' = q)]_vars

(* One request finished with failures of its own while another goes on
   with a different count of its own. *)
C9_Witness ==
    \E r, q \in Posts :
        /\ pc[r] = "raised"
        /\ pc[q] = "sleep" /\ attempt[q] = 2

(* C10: for every non-empty raw text, a second application of clean_ai_json
   returns what the first returned. *)
C10_Idempotent ==
    (san_pc = "twice" /\ san_in # <<>> /\ san_in # None) => san_twice = san_once

(***************************************************************************)
(* Helpers of the sanitizer properties, stated on positions of the text    *)
(* and not through the scans of the model.                                 *)
(***************************************************************************)
IsFencedInput(s) ==
    /\ Len(s) >= Len(FenceJson) + 5
    /\ StartsWith(s, FenceJson \o <<NL>>)
    /\ EndsWith(s, <<NL>> \o Fence)

FencedBody(s) == SubSeq(s, Len(FenceJson) + 2, Len(s) - 4)

HasChar(s, c) == \E i \in 1..Len(s) : s[i] = c

(* Positions a < c hold quotes with only whitespace and one + between. *)
IsArtifact(b, a, c) ==
    /\ a < c /\ b[a] = QT /\ b[c] = QT
    /\ \A i \in (a + 1)..(c - 1) : b[i] = "+" \/ IsSpace(b[i])
    /\ Cardinality({i \in (a + 1)..(c - 1) : b[i] = "+"}) = 1

InArtifact(b, i) == \E a \in 1..i, c \in i..Len(b) : IsArtifact(b, a, c)

RECURSIVE DropArtifactsFrom(_, _)
DropArtifactsFrom(b, i) ==
    IF i > Len(b) THEN <<>>
    ELSE (IF InArtifact(b, i) THEN <<>> ELSE <<b[i]>>) \o DropArtifactsFrom(b, i + 1)

WithoutArtifacts(b) == DropArtifactsFrom(b, 1)

NoEdgeSpace(b) == b = <<>> \/ (~IsSpace(b[1]) /\ ~IsSpace(b[Len(b)]))

(* No quote closes one artifact and opens the next. *)
NoSharedQuote(b) ==
    \A a, c, d \in 1..Len(b) : ~(IsArtifact(b, a, c) /\ IsArtifact(b, c, d))

(* C11 as stated: for a fenced text whose body has no backslash and no
   fence, clean_ai_json returns exactly the body without its quote-plus-quote
   artifacts. *)
C11_FencedBodyExactly ==
    (san_pc # "raw" /\ IsFencedInput(san_in)
        /\ ~HasChar(FencedBody(san_in), BS) /\ ~HasChar(FencedBody(san_in), BT))
      => san_once = WithoutArtifacts(FencedBody(san_in))

(* C11 as amended: the same, for a body that neither starts nor ends with
   whitespace and in which no quote is shared by two artifacts. *)
C11_FencedBodyTrimmed ==
    (san_pc # "raw" /\ IsFencedInput(san_in)
        /\ ~HasChar(FencedBody(san_in), BS) /\ ~HasChar(FencedBody(san_in), BT)
        /\ NoEdgeSpace(FencedBody(san_in)) /\ NoSharedQuote(FencedBody(san_in)))
      => san_once = WithoutArtifacts(FencedBody(san_in))

(* The crafted input of the specification and its result {"a": "xy"}. *)
C11_Witness ==
    /\ san_pc = "once"
    /\ san_in = Fenced(<<"{", QT, "a", QT, ":", SP, QT, "x", QT, SP, "+", SP, QT, "y", QT, "}">>)
    /\ san_once = <<"{", QT, "a", QT, ":", SP, QT, "x", "y", QT, "}">>

(* The text with each backslash n turned into a newline and each backslash
   quote into a quote, position by position. *)
RECURSIVE EscapeSubstFrom(_, _)
EscapeSubstFrom(t, i) ==
    IF i > Len(t) THEN <<>>
    ELSE (IF i < Len(t) /\ t[i] = BS /\ t[i + 1] = "n" THEN <<NL>>
          ELSE IF i < Len(t) /\ t[i] = BS /\ t[i + 1] = QT THEN <<QT>>
          ELSE IF i > 1 /\ t[i - 1] = BS /\ t[i] \in {"n", QT} THEN <<>>
          ELSE <<t[i]>>) \o EscapeSubstFrom(t, i + 1)

EscapeSubst(t) == EscapeSubstFrom(t, 1)

NoArtifact(t) == \A a, c \in 1..Len(t) : ~IsArtifact(t, a, c)

(* C12: for a raw text without fences and without concatenation artifacts,
   clean_ai_json returns the text (its surrounding whitespace stripped)
   with every backslash n replaced by a newline and every backslash quote
   by a quote. *)
C12_EscapeSubstitution ==
    (san_pc # "raw" /\ ~Falsy(san_in) /\ ~HasChar(san_in, BT) /\ NoArtifact(san_in))
      => san_once = EscapeSubst(Strip(san_in))

(* The example: backslash quote, value, backslash n, line2, backslash quote
   gives quote, value, newline, line2, quote. *)
C12_Witness ==
    /\ san_pc = "once"
    /\ san_in = <<BS, QT, "v", "a", "l", "u", "e", BS, "n", "l", "i", "n", "e", "2", BS, QT>>
    /\ san_once = <<QT, "v", "a", "l", "u", "e", NL, "l", "i", "n", "e", "2", QT>>

(* A str: a sequence of characters, so neither None nor a raised error. *)
IsStr(v) == v # None /\ v # RaisedError /\ \A i \in 1..Len(v) : v[i] \notin {"None", "Exception"}

(* C13: clean_ai_json never raises: None and the empty text give None, every
   other text gives a str. *)
C13_NeverRaises ==
    san_pc # "raw" =>
        /\ san_once # RaisedError
        /\ (san_in = None \/ san_in = <<>>) => san_once = None
        /\ (san_in # None /\ san_in # <<>>) => IsStr(san_once)

C13_Witness ==
    /\ san_pc = "once"
    /\ san_in = None
    /\ san_once = None

HasReturningCall(h) == \E i \in 1..Len(h) : h[i].ok

(* C14: the first attempt whose invoker call returns ends the run in
   returned, whatever the sanitized text is; after it the run makes no
   further invoker call and no sleep. *)
C14_FirstReturnSucceeds ==
    /\ [](\A r \in Posts :
            HasReturningCall(outcomes[r]) =>
                /\ pc[r] = "returned"
                /\ outcomes[r][Len(outcomes[r])].ok
                /\ AllFailed(SubSeq(outcomes[r], 1, Len(outcomes[r]) - 1))
                /\ attempt[r] = Len(outcomes[r]) - 1
                /\ response[r].status = 200)
    /\ [][\A r \in Posts :
            pc[r] = "returned" =>
                /\ pc'[r] = "returned"
                /\ prompts'[r] = prompts[r]
                /\ outcomes'[r] = outcomes[r]
                /\ sleeps'[r] = sleeps[r]]_vars

(* Success with an absent sanitized text, and success with a sanitized text
   that is not JSON, after earlier failures. *)
C14_Witness ==
    \E r, q \in Posts :
        /\ pc[r] = "returned" /\ cleaned[r] = None
        /\ pc[q] = "returned" /\ cleaned[q] # None /\ HasChar(cleaned[q], NL)
        /\ attempt[q] > 0

(* C15 as stated: after k failed attempts of a request exactly k entries
   exist, and the entry of the attempt with index i carries i. *)
C15_LoggedWithIndex ==
    \A r \in Posts :
        /\ Len(stdout[r]) = Failures(outcomes[r])
        /\ \A k \in 1..Len(stdout[r]) : stdout[r][k].number = k - 1

(* C15 as amended: after k failed attempts of a request exactly k entries
   exist, written before the delay and before the next attempt, and the
   entry of the attempt with index i carries the number i + 1. *)
C15_LoggedWithNumber ==
    \A r \in Posts :
        /\ Len(stdout[r]) = Failures(outcomes[r])
        /\ Len(stdout[r]) = attempt[r]
        /\ Len(prompts[r]) <= Len(stdout[r]) + 1
        /\ \A k \in 1..Len(stdout[r]) : stdout[r][k].number = (k - 1) + 1

C15_Witness ==
    \E r \in Posts : pc[r] = "sleep" /\ Len(stdout[r]) = 3 /\ Failures(outcomes[r]) = 3

(* C16: at the terminal error last_response is still None, the detail ends
   with the word None, and a recorded text belongs to a run that returned. *)
C16_ExhaustedWithoutText ==
    \A r \in Posts :
        /\ pc[r] = "raised" =>
              /\ last_response[r] = None
              /\ response[r] = [status |-> 500,
                                detail |-> <<"Failed after multiple retries. Last AI response: ",
                                             "N", "o", "n", "e">>]
        /\ last_response[r] # None => pc[r] = "returned"

C16_Witness ==
    \E r, q \in Posts :
        /\ pc[r] = "raised" /\ Len(outcomes[r]) = DefaultRetries
        /\ pc[q] = "returned" /\ last_response[q] # None

(* C17: a sleep follows every failed attempt, the last one included: the
   sleeps made equal the failed attempts, the terminal error is raised from
   the loop test after the last sleep has returned, and a success adds no
   sleep. *)
C17_SleepAfterEveryFailure ==
    /\ [](\A r \in Posts :
            /\ sleeps[r] = Failures(outcomes[r])
            /\ pc[r] = "raised" => sleeps[r] = retries[r])
    /\ [][\A r \in Posts :
            /\ (pc'[r] = "raised" /\ pc[r] # "raised") => pc[r] = "while"
            /\ (pc'[r] = "returned" /\ pc[r] # "returned") => sleeps'[r] = sleeps[r]
            /\ (Len(outcomes'[r]) > Len(outcomes[r]) /\ pc'[r] # "returned")
                  => (pc'[r] = "sleep" /\ sleeps'[r] = sleeps[r] + 1)]_vars

C17_Witness ==
    \E r \in Posts : pc[r] = "raised" /\ sleeps[r] = 5 /\ Len(outcomes[r]) = 5

(* C18: a call with retries <= 0 makes no invoker call, no sleep and no log
   entry, and raises the 500 whose detail ends with the word None. *)
C18_NoAttemptWhenRetriesNotPositive ==
    \A r \in Posts :
        (pc[r] # "idle" /\ retries[r] <= 0) =>
            /\ pc[r] \in {"while", "raised"}
            /\ prompts[r] = <<>> /\ outcomes[r] = <<>>
            /\ sleeps[r] = 0 /\ stdout[r] = <<>>
            /\ attempt[r] = 0 /\ last_response[r] = None
            /\ pc[r] = "raised" =>
                  response[r] = ErrorResponse(Detail(None))

C18_Witness ==
    \E r, q \in Posts :
        /\ pc[r] = "raised" /\ retries[r] = 0
        /\ pc[q] = "raised" /\ retries[q] < 0

=============================================================================
